---------------------------- MODULE Spec2Model ----------------------------
(***************************************************************************)
(* Shamir secret sharing over GF(2^16) (package shamir) and its table      *)
(* generator.                                                              *)
(*                                                                         *)
(* The program works on 8-bit bytes and 16-bit words.  The model keeps     *)
(* every width symbolic: a byte has ByteBits bits and a word (uint16) has  *)
(* WordBits = 2 * ByteBits bits, so that SizeGF16 = 2^WordBits.  With      *)
(* ByteBits = 8 every definition below is the program's own; the checked   *)
(* instances use a narrower byte, which scales the field, the tables, the  *)
(* limit on the number of parts and the point where uint16 arithmetic      *)
(* wraps, all together.                                                    *)
(***************************************************************************)
EXTENDS Integers, Sequences, FiniteSets, TLC

VARIABLES
    secret,     \* Split's argument secret: a sequence of bytes
    parts,      \* Split's argument parts (int)
    threshold,  \* Split's argument threshold (int)
    split,      \* what the call of Split did and returned, or NotCalled
    cin,        \* Combine's argument parts: a sequence of byte sequences
    comb,       \* what the call of Combine did and returned, or NotCalled
    gen,        \* the table generator tool: tableGenerator's locals and main's exit
    conc,       \* Combine's goroutines, channel and collector loop
    field       \* one call of mult: its operands, the tables it read, its result

vars == <<secret, parts, threshold, split, cin, comb, gen, conc, field>>

---------------------------------------------------------------------------
(* Bounds of the model *)

\* Bits of a byte (8 in the program).
ByteBits == 2

\* Longest secret handed to Split, in bytes.
MaxSecretLen == 4

\* Largest seed of the random streams tried.
MaxRandSeed == 2

\* The selections of shares handed to Combine start at share 1 .. MaxStart.
MaxStart == 3

\* Longest secret of the callers of the secrecy check, in bytes.
MaxSecrecyLen == 2

\* Most words of the parts combined by the goroutines.
MaxWords == 3

---------------------------------------------------------------------------
(* Widths and constants *)

WordBits == 2 * ByteBits

SizeByte == 2 ^ ByteBits

SizeGF16 == 2 ^ WordBits

ModuloGF16 == SizeGF16 - 1

MaxPartsGF16 == SizeGF16 - 1

Byte == 0 .. (SizeByte - 1)

Uint16 == 0 .. (SizeGF16 - 1)

\* Conversion of an int to uint16, as in uint16(v).
ToUint16(v) == v % SizeGF16

\* The low WordBits bits of the irreducible polynomial: 0x100B for x^16+x^12+x^3+x+1.
\* The narrower fields use x^8+x^4+x^3+x^2+1 and x^n+x+1 (n = 2, 4, 6), all primitive.
polynomial ==
    CASE WordBits = 16 -> 4107
      [] WordBits = 8 -> 29
      [] OTHER -> 3

\* The generator of the multiplicative group: 257 in the program, x in the narrower fields.
generator ==
    CASE WordBits = 16 -> 257
      [] OTHER -> 2

---------------------------------------------------------------------------
(* Field arithmetic *)

RECURSIVE BitXor(_, _)
BitXor(a, b) ==
    IF a = 0 THEN b
    ELSE IF b = 0 THEN a
    ELSE ((a + b) % 2) + 2 * BitXor(a \div 2, b \div 2)

\* The only element of a set of one element.  TLC evaluates a LET definition and an
\* operator argument anew at each use: a value used in a loop is bound once, as
\* The({body : v \in {value}}).
The(S) == CHOOSE v \in S : TRUE

\* a ^ b for every pair of uint16, computed once.
XorTable == [a \in Uint16 |-> [b \in Uint16 |-> BitXor(a, b)]]

add(a, b) == XorTable[a][b]

RECURSIVE multiplyLoop(_, _, _)
multiplyLoop(a, b, p) ==
    IF a > 0 /\ b > 0
    THEN LET p1 == IF b % 2 = 1 THEN BitXor(p, a) ELSE p
             hasCarry == a > (SizeGF16 \div 2) - 1
             a1 == (a * 2) % SizeGF16
         IN  multiplyLoop(IF hasCarry THEN BitXor(a1, polynomial) ELSE a1, b \div 2, p1)
    ELSE p

multiplyGF16(a, b) == multiplyLoop(a, b, 0)

\* tableGenerator's locals before its loop.
TableStart(g) ==
    [product |-> g,
     expTable |-> <<1, g>>,
     count |-> 2,
     logTable |-> [v \in Uint16 |-> IF v = g THEN 1 ELSE 0]]

\* One iteration of tableGenerator's loop.
TableStep(g, t) ==
    LET product == multiplyGF16(g, t.product)
    IN  [product |-> product,
         expTable |-> Append(t.expTable, product),
         count |-> t.count + 1,
         logTable |-> [t.logTable EXCEPT ![product] = ToUint16(t.count)]]

RECURSIVE TableLoop(_, _)
TableLoop(g, t) == IF t.product # 1 THEN TableLoop(g, TableStep(g, t)) ELSE t

\* The tables the generator writes to tables.go for the program's generator.
Tables == TableLoop(generator, TableStart(generator))

\* logTable[v], v in 0 .. SizeGF16-1
logTable == Tables.logTable

\* expTable[k], k in 0 .. SizeGF16-1
expTable == [k \in Uint16 |-> Tables.expTable[k + 1]]

ConstantTimeSelect(v, x, y) == IF v = 1 THEN x ELSE y

ConstantTimeEq(x, y) == IF x = y THEN 1 ELSE 0

\* The value standing for div's panic("divide by zero").
Panic == -1

\* div's body.
divBody(a, b) ==
    IF b = 0 THEN Panic
    ELSE LET log_a == logTable[a]
             log_b == logTable[b]
             diff == ((log_a - log_b) + ModuloGF16) % ModuloGF16
             ret == expTable[diff]
         IN  ToUint16(ConstantTimeSelect(ConstantTimeEq(a, 0), 0, ret))

\* multWith that masks the result for a zero a only.
multWithOneMask(log, a, b) ==
    LET log_a == log[a]
        log_b == log[b]
        sum == (log_a + log_b) % ModuloGF16
    IN  ToUint16(ConstantTimeSelect(ConstantTimeEq(a, 0), 0, expTable[sum]))

\* mult's body, reading the logarithms from the table log.
multWith(log, a, b) ==
    LET log_a == log[a]
        log_b == log[b]
        sum == (log_a + log_b) % ModuloGF16
        ret == ConstantTimeSelect(ConstantTimeEq(a, 0), 0, expTable[sum])
    IN  ToUint16(ConstantTimeSelect(ConstantTimeEq(b, 0), 0, ret))

\* mult's body.
multBody(a, b) == multWith(logTable, a, b)

\* div and mult of every pair of uint16, computed once.
DivTable == [a \in Uint16 |-> [b \in Uint16 |-> divBody(a, b)]]

MultTable == [a \in Uint16 |-> [b \in Uint16 |-> multBody(a, b)]]

div(a, b) == DivTable[a][b]

mult(a, b) == MultTable[a][b]

---------------------------------------------------------------------------
(* Bytes and words *)

\* binary.Write(out, binary.BigEndian, s): two bytes per word, high byte first.
RECURSIVE uint16ToByte(_)
uint16ToByte(s) ==
    IF s = <<>> THEN <<>>
    ELSE <<Head(s) \div SizeByte, Head(s) % SizeByte>> \o uint16ToByte(Tail(s))

\* binary.Read into make([]uint16, len(s)/2): a trailing odd byte is not read.
byteToUint16(s) ==
    [k \in 1 .. (Len(s) \div 2) |-> s[2 * k - 1] * SizeByte + s[2 * k]]

---------------------------------------------------------------------------
(* The random source *)

\* A random stream is named by its seed: its byte at position pos (counted from 0
\* over one call of Split) is seed * (pos + 1), cut to a byte.
RandStreams == 0 .. MaxRandSeed

RandByte(stream, pos) == (stream * (pos + 1)) % SizeByte

\* rand.Read either fills the buffer or fails; failAt is the number of the call of
\* rand.Read (from 0) that fails, -1 when none does.
RandOutcomes == [stream : RandStreams, failAt : {-1, 0, 1}]

---------------------------------------------------------------------------
(* Polynomials *)

\* len(coefficients8): degree*2 computed in uint16.
RandomByteCount(degree) == (degree * 2) % SizeGF16

\* makePolynomial(intercept, degree) reading its random bytes at position pos of the
\* stream: a polynomial is the sequence of its coefficients, coefficients[i] at i+1.
makePolynomial(intercept, degree, stream, pos) ==
    LET n == RandomByteCount(degree)
        coefficients8 == [k \in 1 .. n |-> RandByte(stream, pos + k - 1)]
    IN  <<intercept>> \o byteToUint16(coefficients8)

\* hornerLoop with a loop that stops before index 0 (i > 0 for i >= 0): the
\* intercept is left out.
RECURSIVE hornerLoopStopsEarly(_, _, _)
hornerLoopStopsEarly(p, x, i) ==
    IF i >= Len(p) - 1 THEN p[Len(p)]
    ELSE add(mult(hornerLoopStopsEarly(p, x, i + 1), x), IF i = 0 THEN 0 ELSE p[i + 1])

\* The value of out in evaluate's loop once coefficients[i] has been added
\* (i = degree: before the loop).
RECURSIVE hornerLoop(_, _, _)
hornerLoop(p, x, i) ==
    IF i = Len(p) - 1 THEN p[i + 1]
    ELSE add(mult(hornerLoop(p, x, i + 1), x), p[i + 1])

evaluate(p, x) ==
    IF x = 0 THEN p[1]
    ELSE hornerLoop(p, x, 0)

---------------------------------------------------------------------------
(* Lagrange interpolation *)

\* The pairs <<i, j>> of samples for which interpolatePolynomial calls div.
DivPairs(x_samples) ==
    {ij \in (1 .. Len(x_samples)) \X (1 .. Len(x_samples)) : ij[1] # ij[2]}

\* The divisors denom of the calls div(num, denom) interpolatePolynomial makes.
DivDenoms(x_samples) ==
    {add(x_samples[ij[1]], x_samples[ij[2]]) : ij \in DivPairs(x_samples)}

\* The value of basis in interpolatePolynomial's inner loop for sample i after its
\* iterations 1 .. j.
RECURSIVE basisLoop(_, _, _, _)
basisLoop(x_samples, x, i, j) ==
    IF j = 0 THEN 1
    ELSE IF i = j THEN basisLoop(x_samples, x, i, j - 1)
    ELSE mult(basisLoop(x_samples, x, i, j - 1),
              div(add(x, x_samples[j]), add(x_samples[i], x_samples[j])))

\* The value of group in each iteration of interpolatePolynomial's outer loop.
InterpolateGroups(x_samples, y_samples, x) ==
    [i \in 1 .. Len(x_samples) |->
        mult(y_samples[i], basisLoop(x_samples, x, i, Len(x_samples)))]

\* The value of result in interpolatePolynomial's outer loop after its iterations 1 .. i.
RECURSIVE interpolateLoop(_, _)
interpolateLoop(groups, i) ==
    IF i = 0 THEN 0
    ELSE add(interpolateLoop(groups, i - 1), groups[i])

\* The value at x, or Panic when one of the divisions has divisor 0.
interpolatePolynomial(x_samples, y_samples, x) ==
    The({IF 0 \in DivDenoms(xs) THEN Panic
         ELSE The({interpolateLoop(groups, Len(groups)) :
                      groups \in {InterpolateGroups(xs, ys, x)}}) :
            xs \in {x_samples}, ys \in {y_samples}})

---------------------------------------------------------------------------
(* Split *)

\* No error (nil).
NoError == ""

ErrPartsLessThanThreshold == "parts cannot be less than threshold"

ErrPartsExceed == "parts cannot exceed MaxPartsGF16"

ErrThreshold == "threshold must be at least 2"

ErrEmptySecret == "cannot split an empty secret"

ErrOddSecret == "cannot split odd length secret"

ErrPolynomial == "failed to generate polynomial"

\* What a call of Split did: the error and the shares it returned, whether it had
\* allocated out16, the calls of rand.Read it made, whether one of them failed, the
\* bytes they delivered, and the polynomials it built.
SplitReturn(err, shares, allocated, randCalls, randFailed, randBytes, polys) ==
    [called |-> TRUE, err |-> err, shares |-> shares, allocated |-> allocated,
     randCalls |-> randCalls, randFailed |-> randFailed, randBytes |-> randBytes,
     polys |-> polys]

SplitNotCalled ==
    [called |-> FALSE, err |-> NoError, shares |-> <<>>, allocated |-> FALSE,
     randCalls |-> 0, randFailed |-> FALSE, randBytes |-> 0, polys |-> <<>>]

\* SplitValidate with the check of the threshold made first.
SplitValidateThresholdFirst(sec, n, t) ==
    IF t < 2 THEN ErrThreshold
    ELSE IF n < t THEN ErrPartsLessThanThreshold
    ELSE IF n > MaxPartsGF16 THEN ErrPartsExceed
    ELSE IF Len(sec) = 0 THEN ErrEmptySecret
    ELSE IF Len(sec) % 2 # 0 THEN ErrOddSecret
    ELSE NoError

\* The checks Split makes of its arguments, in its order: the first error, or NoError.
SplitValidate(sec, n, t) ==
    IF n < t THEN ErrPartsLessThanThreshold
    ELSE IF n > MaxPartsGF16 THEN ErrPartsExceed
    ELSE IF t < 2 THEN ErrThreshold
    ELSE IF Len(sec) = 0 THEN ErrEmptySecret
    ELSE IF Len(sec) % 2 # 0 THEN ErrOddSecret
    ELSE NoError

\* ShareX without the + 1: x counted from 0.
ShareXFromZero(i) == ToUint16(i - 1)

\* uint16(idx) + 1 for idx = i - 1: the x of the share at position i (from 1).
ShareX(i) == ToUint16(ToUint16(i - 1) + 1)

\* The polynomials Split builds for the first built words of secret16.
SplitPolynomials(secret16, degree, stream, built) ==
    [k \in 1 .. built |->
        makePolynomial(secret16[k], degree, stream, (k - 1) * RandomByteCount(degree))]

\* out16 once filled in: for each part its y of each word, then its x.
SplitOut16(polys, n) ==
    [i \in 1 .. n |->
        [k \in 1 .. (Len(polys) + 1) |->
            IF k = Len(polys) + 1 THEN ShareX(i) ELSE evaluate(polys[k], ShareX(i))]]

\* Split(secret, parts, threshold) when the random source behaves as rnd.
Split(sec, n, t, rnd) ==
    IF SplitValidate(sec, n, t) # NoError
    THEN SplitReturn(SplitValidate(sec, n, t), <<>>, FALSE, 0, FALSE, 0, <<>>)
    ELSE
        LET secret16 == byteToUint16(sec)
            degree == ToUint16(t - 1)
            failed == rnd.failAt \in 0 .. (Len(secret16) - 1)
            built == IF failed THEN rnd.failAt ELSE Len(secret16)
            randBytes == built * RandomByteCount(degree)
        IN  The({IF failed
                 THEN SplitReturn(ErrPolynomial, <<>>, TRUE, built + 1, TRUE, randBytes, polys)
                 ELSE The({SplitReturn(NoError, [i \in 1 .. n |-> uint16ToByte(out16[i])],
                                       TRUE, built, FALSE, randBytes, polys) :
                              out16 \in {SplitOut16(polys, n)}}) :
                    polys \in {SplitPolynomials(secret16, degree, rnd.stream, built)}})

---------------------------------------------------------------------------
(* Combine *)

ErrTooFewParts == "less than two parts cannot be used to reconstruct the secret"

ErrShortParts == "parts must be at least four bytes"

ErrOddParts == "parts must be even bytes long"

ErrPartLengths == "all parts must be the same length"

ErrDuplicatePart == "duplicate part detected"

\* What a call of Combine did: the error and the secret it returned, the x samples of
\* its calls of interpolatePolynomial (<<>> when it made none), the number of those
\* calls, the divisors of the divisions they made, and whether div panicked.
CombineReturn(err, sec, x_samples, calls, denoms, panicked) ==
    [called |-> TRUE, err |-> err, secret |-> sec, x_samples |-> x_samples,
     calls |-> calls, denoms |-> denoms, panicked |-> panicked]

CombineNotCalled ==
    [called |-> FALSE, err |-> NoError, secret |-> <<>>, x_samples |-> <<>>,
     calls |-> 0, denoms |-> {}, panicked |-> FALSE]

\* XSamples reading the first word of each part for its last.
XSamplesFirstWord(parts16) == [i \in 1 .. Len(parts16) |-> parts16[i][1]]

\* The trailing x-tag of each part.
XSamples(parts16) == [i \in 1 .. Len(parts16) |-> parts16[i][Len(parts16[i])]]

\* DuplicateDetected comparing each x-tag with the one before it only.
DuplicateDetectedAdjacent(x_samples) ==
    \E i \in 1 .. (Len(x_samples) - 1) : x_samples[i] = x_samples[i + 1]

\* The check of the x-tags against checkMap.
DuplicateDetected(x_samples) ==
    \E i, j \in 1 .. Len(x_samples) : i < j /\ x_samples[i] = x_samples[j]

\* The y samples of word idx (from 1).
YSamples(parts16, idx) == [i \in 1 .. Len(parts16) |-> parts16[i][idx]]

\* CombineValidate without the check that the length is even.
CombineValidateNoEven(ps) ==
    IF Len(ps) < 2 THEN ErrTooFewParts
    ELSE IF Len(ps[1]) < 4 THEN ErrShortParts
    ELSE IF \E i \in 2 .. Len(ps) : Len(ps[i]) # Len(ps[1]) THEN ErrPartLengths
    ELSE NoError

\* The checks Combine makes of the number and the lengths of its parts, in its
\* order: the first error, or NoError.
CombineValidate(ps) ==
    IF Len(ps) < 2 THEN ErrTooFewParts
    ELSE IF Len(ps[1]) < 4 THEN ErrShortParts
    ELSE IF Len(ps[1]) % 2 = 1 THEN ErrOddParts
    ELSE IF \E i \in 2 .. Len(ps) : Len(ps[i]) # Len(ps[1]) THEN ErrPartLengths
    ELSE NoError

\* Combine once the lengths are checked, from the words of its parts.
CombineWords(parts16, x_samples) ==
    IF DuplicateDetected(x_samples)
    THEN CombineReturn(ErrDuplicatePart, <<>>, <<>>, 0, {}, FALSE)
    ELSE The({IF \E idx \in 1 .. Len(secret16) : secret16[idx] = Panic
              THEN CombineReturn(NoError, <<>>, x_samples, Len(secret16),
                                 DivDenoms(x_samples), TRUE)
              ELSE CombineReturn(NoError, uint16ToByte(secret16), x_samples, Len(secret16),
                                 DivDenoms(x_samples), FALSE) :
                 secret16 \in {[idx \in 1 .. (Len(parts16[1]) - 1) |->
                                  interpolatePolynomial(x_samples, YSamples(parts16, idx), 0)]}})

Combine(ps) ==
    IF CombineValidate(ps) # NoError
    THEN CombineReturn(CombineValidate(ps), <<>>, <<>>, 0, {}, FALSE)
    ELSE The({The({CombineWords(parts16, x_samples) : x_samples \in {XSamples(parts16)}}) :
                 parts16 \in {[i \in 1 .. Len(ps) |-> byteToUint16(ps[i])]}})

---------------------------------------------------------------------------
(* The callers of Split and Combine *)

\* The first threshold whose degree, doubled, no longer fits a uint16.
HalfGF16 == SizeGF16 \div 2

\* All sequences over S of length at most n.
SeqsUpTo(S, n) == UNION {[1 .. k -> S] : k \in 0 .. n}

SecretChoices == SeqsUpTo({0, SizeByte - 1}, MaxSecretLen)

ThresholdChoices ==
    {0, 1, 2, 3, HalfGF16, HalfGF16 + 1, HalfGF16 + 2, MaxPartsGF16 + 1}

PartsChoices ==
    {-1, 1, 2, 3, 4, HalfGF16 + 1, HalfGF16 + 2, MaxPartsGF16, MaxPartsGF16 + 1}

\* Parts that come from no Split: up to two byte strings.
ForeignParts == SeqsUpTo(SeqsUpTo({0, 1}, MaxSecretLen + 1), 2)

\* len of the n shares, taken from share number start on, every stride-th, around.
Selection(n, start, stride, len) ==
    [k \in 1 .. len |-> ((start - 1 + (k - 1) * stride) % n) + 1]

Selections(n, t) ==
    {Selection(n, start, stride, len) :
        start \in 1 .. (IF n < MaxStart THEN n ELSE MaxStart),
        stride \in {1, 2, n - 1},
        len \in {t - 1, t}}

\* tableGenerator and main before they run: where they are, the generator, the
\* tables and counters of the loop, the error tableGenerator returns, whether the
\* message went to stderr, whether the tables file was created, how many of the
\* stages of writing it were done, and the exit status.
GenIdle ==
    [pc |-> "idle", generator |-> generator, t |-> TableStart(generator), err |-> NoError,
     stderr |-> FALSE, created |-> FALSE, written |-> 0, exited |-> FALSE, status |-> 0]

\* Combine's goroutines and collector before they run: where Combine is, the next
\* idx of its spawning loop, each goroutine's position, the message each goroutine
\* sends, secret16, how often each of its words was written, and the idx of the
\* messages received, in their order.
ConcIdle ==
    [pc |-> "idle", next |-> 1, g |-> <<>>, msg |-> <<>>, secret16 |-> <<>>,
     written |-> <<>>, order |-> <<>>]

\* mult before the call: the operands, what logTable[0] holds, mult's result with the
\* generated tables, its result with that logTable[0], and the product of the
\* generator's multiplyGF16.
FieldIdle ==
    [called |-> FALSE, a |-> 0, b |-> 0, log0 |-> 0, ret |-> 0, retLog0 |-> 0, product |-> 0]

Init ==
    /\ \/ /\ secret \in SecretChoices
          /\ parts \in PartsChoices
          /\ threshold \in ThresholdChoices
          /\ cin = <<>>
       \/ /\ secret = <<>>
          /\ parts = 0
          /\ threshold = 0
          /\ cin \in ForeignParts
    /\ split = SplitNotCalled
    /\ comb = CombineNotCalled
    /\ gen = GenIdle
    /\ conc = ConcIdle
    /\ field = FieldIdle

\* The caller splits the secret.
CallSplit ==
    /\ ~split.called
    /\ ~comb.called
    /\ \E rnd \in RandOutcomes : split' = Split(secret, parts, threshold, rnd)
    /\ UNCHANGED <<secret, parts, threshold, cin, comb, gen, conc, field>>

\* The caller combines some of the shares Split returned.
CombineShares ==
    /\ split.called
    /\ split.err = NoError
    /\ ~comb.called
    /\ \E sel \in Selections(parts, threshold) :
          /\ cin' = [k \in 1 .. Len(sel) |-> split.shares[sel[k]]]
          /\ comb' = Combine(cin')
    /\ UNCHANGED <<secret, parts, threshold, split, gen, conc, field>>

\* The caller combines parts of its own.
CombineForeign ==
    /\ ~split.called
    /\ ~comb.called
    /\ comb' = Combine(cin)
    /\ UNCHANGED <<secret, parts, threshold, split, cin, gen, conc, field>>

Next == CallSplit \/ CombineShares \/ CombineForeign

Spec == Init /\ [][Next]_vars

---------------------------------------------------------------------------
(* One call of mult *)

\* mult(a, b), and the same call with another value stored at logTable[0].
CallMult ==
    /\ ~field.called
    /\ \E a \in Uint16, b \in Uint16, z \in Uint16 :
          field' = [called |-> TRUE, a |-> a, b |-> b, log0 |-> z,
                    ret |-> mult(a, b),
                    retLog0 |-> multWith([logTable EXCEPT ![0] = z], a, b),
                    product |-> multiplyGF16(a, b)]
    /\ UNCHANGED <<secret, parts, threshold, split, cin, comb, gen, conc>>

InitField ==
    /\ secret = <<>>
    /\ parts = 0
    /\ threshold = 0
    /\ cin = <<>>
    /\ split = SplitNotCalled
    /\ comb = CombineNotCalled
    /\ gen = GenIdle
    /\ conc = ConcIdle
    /\ field = FieldIdle

NextField == CallMult

SpecField == InitField /\ [][NextField]_vars

---------------------------------------------------------------------------
(* The table generator as a process *)

\* An error of the operating system.
ErrIO == "i/o error"

\* The generators tried in place of the constant: every non-zero element.
GeneratorChoices == 1 .. ModuloGF16

\* What tableGenerator writes to the tables file, one after the other.
WriteStages == <<"header", "logtable", "logTable entries", "exptable", "expTable entries", "footer">>

\* tableGenerator starts with its generator.
GenStart ==
    /\ gen.pc = "idle"
    /\ \E g \in GeneratorChoices :
          gen' = [gen EXCEPT !.pc = "loop", !.generator = g, !.t = TableStart(g)]
    /\ UNCHANGED <<secret, parts, threshold, split, cin, comb, conc, field>>

\* One test of for product != 1, and the iteration that follows.
GenLoop ==
    /\ gen.pc = "loop"
    /\ gen' = IF gen.t.product # 1
              THEN [gen EXCEPT !.t = TableStep(gen.generator, gen.t)]
              ELSE [gen EXCEPT !.pc = "check"]
    /\ UNCHANGED <<secret, parts, threshold, split, cin, comb, conc, field>>

\* The test of count: on a wrong count the message is written to stderr and the
\* error of that write is returned.
GenCheck ==
    /\ gen.pc = "check"
    /\ IF gen.t.count # SizeGF16
       THEN \E ok \in BOOLEAN :
               gen' = [gen EXCEPT !.pc = "main", !.stderr = ok,
                                  !.err = IF ok THEN NoError ELSE ErrIO]
       ELSE gen' = [gen EXCEPT !.pc = "create"]
    /\ UNCHANGED <<secret, parts, threshold, split, cin, comb, conc, field>>

\* os.Create of the tables file.
GenCreate ==
    /\ gen.pc = "create"
    /\ \E ok \in BOOLEAN :
          gen' = IF ok THEN [gen EXCEPT !.pc = "write", !.created = TRUE]
                 ELSE [gen EXCEPT !.pc = "main", !.err = ErrIO]
    /\ UNCHANGED <<secret, parts, threshold, split, cin, comb, conc, field>>

\* The next stage of writing the tables file.
GenWrite ==
    /\ gen.pc = "write"
    /\ \E ok \in BOOLEAN :
          gen' = IF ~ok THEN [gen EXCEPT !.pc = "main", !.err = ErrIO]
                 ELSE [gen EXCEPT !.written = @ + 1,
                                  !.pc = IF gen.written + 1 = Len(WriteStages)
                                         THEN "main" ELSE "write"]
    /\ UNCHANGED <<secret, parts, threshold, split, cin, comb, conc, field>>

\* main exits with the status the error gives.
GenExit ==
    /\ gen.pc = "main"
    /\ gen' = [gen EXCEPT !.pc = "exited", !.exited = TRUE,
                          !.status = IF gen.err # NoError THEN 1 ELSE 0]
    /\ UNCHANGED <<secret, parts, threshold, split, cin, comb, conc, field>>

InitGen ==
    /\ secret = <<>>
    /\ parts = 0
    /\ threshold = 0
    /\ cin = <<>>
    /\ split = SplitNotCalled
    /\ comb = CombineNotCalled
    /\ gen = GenIdle
    /\ conc = ConcIdle
    /\ field = FieldIdle

NextGen == GenStart \/ GenLoop \/ GenCheck \/ GenCreate \/ GenWrite \/ GenExit

SpecGen == InitGen /\ [][NextGen]_vars

---------------------------------------------------------------------------
(* Combine as the processes it runs *)

\* The words of each part of ps.
Parts16(ps) == [i \in 1 .. Len(ps) |-> byteToUint16(ps[i])]

\* len(secret16) for the parts ps.
SecretWords(ps) == Len(ps[1]) \div 2 - 1

\* Result with the idx of the spawning loop in place of the goroutine's own.
ResultOfLoopVariable(idx, val) == [int |-> conc.next - 1, uint16 |-> val]

\* The message a goroutine sends on queue.
Result(idx, val) == [int |-> idx, uint16 |-> val]

\* Combine runs up to the spawning loop, or returns the error of its checks.
ConcStart ==
    /\ conc.pc = "idle"
    /\ IF Combine(cin).err # NoError
       THEN /\ conc' = [conc EXCEPT !.pc = "returned"]
            /\ comb' = Combine(cin)
       ELSE /\ conc' = [conc EXCEPT !.pc = "spawn",
                                    !.g = [k \in 1 .. SecretWords(cin) |-> "unborn"],
                                    !.msg = [k \in 1 .. SecretWords(cin) |-> Result(k, 0)],
                                    !.secret16 = [k \in 1 .. SecretWords(cin) |-> 0],
                                    !.written = [k \in 1 .. SecretWords(cin) |-> 0]]
            /\ comb' = comb
    /\ UNCHANGED <<secret, parts, threshold, split, cin, gen, field>>

\* One test of the spawning loop, and the go statement that follows.
ConcSpawn ==
    /\ conc.pc = "spawn"
    /\ conc' = IF conc.next <= Len(conc.g)
               THEN [conc EXCEPT !.g[conc.next] = "run", !.next = @ + 1]
               ELSE [conc EXCEPT !.pc = "collect"]
    /\ UNCHANGED <<secret, parts, threshold, split, cin, comb, gen, field>>

\* The goroutine of word idx interpolates and comes to its send.
ConcCompute(idx) ==
    /\ conc.g[idx] = "run"
    /\ conc' = [conc EXCEPT
                  !.g[idx] = "send",
                  !.msg[idx] = Result(idx, interpolatePolynomial(XSamples(Parts16(cin)),
                                                                 YSamples(Parts16(cin), idx), 0))]
    /\ UNCHANGED <<secret, parts, threshold, split, cin, comb, gen, field>>

\* The collector receives from the goroutine of word idx, which ends.
ConcRecv(idx) ==
    /\ conc.pc = "collect"
    /\ Len(conc.order) < Len(conc.secret16)
    /\ conc.g[idx] = "send"
    /\ conc' = [conc EXCEPT !.secret16[conc.msg[idx].int] = conc.msg[idx].uint16,
                            !.written[conc.msg[idx].int] = @ + 1,
                            !.g[idx] = "done",
                            !.order = Append(@, conc.msg[idx].int)]
    /\ UNCHANGED <<secret, parts, threshold, split, cin, comb, gen, field>>

\* The collector has received len(secret16) messages: Combine returns.
ConcReturn ==
    /\ conc.pc = "collect"
    /\ Len(conc.order) = Len(conc.secret16)
    /\ conc' = [conc EXCEPT !.pc = "returned"]
    /\ comb' = CombineReturn(NoError, uint16ToByte(conc.secret16), XSamples(Parts16(cin)),
                             Len(conc.secret16), DivDenoms(XSamples(Parts16(cin))), FALSE)
    /\ UNCHANGED <<secret, parts, threshold, split, cin, gen, field>>

\* n parts of w words: y bytes of the stream seed, x-tags 0 .. n - 1, or all 1.
ConcInput(n, w, seed, dup) ==
    [i \in 1 .. n |->
        [k \in 1 .. (2 * w + 2) |->
            IF k = 2 * w + 1 THEN 0
            ELSE IF k = 2 * w + 2 THEN (IF dup THEN 1 ELSE i - 1)
            ELSE RandByte(seed, i + k)]]

ConcInputs ==
    {ConcInput(n, w, seed, dup) :
        n \in {2, 3}, w \in 1 .. MaxWords, seed \in RandStreams, dup \in BOOLEAN}
    \cup {<<>>}

InitConc ==
    /\ secret = <<>>
    /\ parts = 0
    /\ threshold = 0
    /\ cin \in ConcInputs
    /\ split = SplitNotCalled
    /\ comb = CombineNotCalled
    /\ gen = GenIdle
    /\ conc = ConcIdle
    /\ field = FieldIdle

NextConc ==
    \/ ConcStart
    \/ ConcSpawn
    \/ \E idx \in DOMAIN conc.g : ConcCompute(idx)
    \/ \E idx \in DOMAIN conc.g : ConcRecv(idx)
    \/ ConcReturn

\* A goroutine that can run does run, and so does Combine.
SpecConc == InitConc /\ [][NextConc]_vars /\ WF_vars(NextConc)

---------------------------------------------------------------------------
(* The callers of the secrecy check *)

\* The callers of the secrecy check: short secrets, thresholds on both sides of
\* HalfGF16, as many parts as the threshold or one more.
InitSecrecy ==
    /\ secret \in SeqsUpTo({0, SizeByte - 1}, MaxSecrecyLen)
    /\ threshold \in {2, 3, HalfGF16 + 1}
    /\ parts \in {threshold, threshold + 1}
    /\ cin = <<>>
    /\ split = SplitNotCalled
    /\ comb = CombineNotCalled
    /\ gen = GenIdle
    /\ conc = ConcIdle
    /\ field = FieldIdle

SpecSecrecy == InitSecrecy /\ [][Next]_vars

---------------------------------------------------------------------------
(* What the claims speak of *)

\* The 16-bit word at byte position 2k-1, 2k of a byte string, big-endian.
WordAt(bytes, k) == bytes[2 * k - 1] * SizeByte + bytes[2 * k]

\* The trailing x-tag of a part of at least two bytes.
TagOf(part) == WordAt(part, Len(part) \div 2)

SplitPreconditionFails ==
    \/ parts < threshold
    \/ parts > MaxPartsGF16
    \/ threshold < 2
    \/ Len(secret) = 0
    \/ Len(secret) % 2 = 1

FirstViolatedError ==
    IF parts < threshold THEN ErrPartsLessThanThreshold
    ELSE IF parts > MaxPartsGF16 THEN ErrPartsExceed
    ELSE IF threshold < 2 THEN ErrThreshold
    ELSE IF Len(secret) = 0 THEN ErrEmptySecret
    ELSE ErrOddSecret

SplitSucceeded == split.called /\ split.err = NoError

\* cin is threshold shares of the split, no share twice.
CombinedThresholdShares ==
    /\ SplitSucceeded
    /\ comb.called
    /\ Len(cin) = threshold
    /\ \A k \in 1 .. Len(cin) : \E i \in 1 .. parts : cin[k] = split.shares[i]
    /\ \A k, l \in 1 .. Len(cin) : k # l => cin[k] # cin[l]

---------------------------------------------------------------------------
(* C1 *)

\* C1: round trip.  For a secret of even length >= 2 and 2 <= T <= N <= MaxPartsGF16,
\* whatever the random source delivers, Split succeeds, and Combine of any T of its
\* shares, in any order, returns the secret and no error.
C1_RoundTrip ==
    /\ (split.called /\ ~SplitPreconditionFails /\ ~split.randFailed) => split.err = NoError
    /\ CombinedThresholdShares => (comb.err = NoError /\ comb.secret = secret)

\* Shares of a threshold above HalfGF16 combined, not in the order of their tags.
C1_Witness ==
    /\ CombinedThresholdShares
    /\ threshold > HalfGF16
    /\ Len(secret) = 4
    /\ TagOf(cin[1]) > TagOf(cin[2])
    /\ comb.secret = secret

---------------------------------------------------------------------------
(* C2 *)

\* The number of random coefficients makePolynomial draws for the threshold.
RandomCoefficients == RandomByteCount(ToUint16(threshold - 1)) \div 2

\* The number of draws of the random coefficients under which the shares at the
\* positions in S carry, for secret word k, the values they do carry, were the
\* secret word v.
ConsistentDraws(k, S, v) ==
    Cardinality({c \in [1 .. RandomCoefficients -> Uint16] :
        \A i \in S : evaluate(<<v>> \o c, ShareX(i)) = WordAt(split.shares[i], k)})

\* C2: secrecy below the threshold.  With uniformly drawn coefficients, any T - 1
\* shares of a successful Split are as likely under every value of a secret word as
\* under every other: each value is consistent with the same, non-zero, number of
\* draws of the coefficients.
C2_SecrecyBelowThreshold ==
    SplitSucceeded =>
        \A k \in 1 .. (Len(secret) \div 2) :
            \A S \in {S \in SUBSET (1 .. parts) : Cardinality(S) = threshold - 1} :
                \A v \in Uint16 :
                    /\ ConsistentDraws(k, S, v) > 0
                    /\ ConsistentDraws(k, S, v) = ConsistentDraws(k, S, WordAt(secret, k))

\* The same for the thresholds up to HalfGF16.
C2_SecrecyLowThreshold == threshold <= HalfGF16 => C2_SecrecyBelowThreshold

---------------------------------------------------------------------------
(* C3 *)

\* C3: for every threshold T Split accepts, the polynomial built for each secret
\* word has exactly T coefficients, the first of them the secret word.
C3_PolynomialDegree ==
    SplitSucceeded =>
        /\ Len(split.polys) = Len(secret) \div 2
        /\ \A k \in 1 .. Len(split.polys) :
              /\ Len(split.polys[k]) = threshold
              /\ split.polys[k][1] = WordAt(secret, k)

---------------------------------------------------------------------------
(* C4 *)

\* C4: a successful Split returns exactly N shares of len(secret) + 2 bytes, the
\* share at position i (from 1) ending with the big-endian x-tag i: the tags are
\* 1 .. N, pairwise distinct and never 0.
C4_ShareShape ==
    SplitSucceeded =>
        /\ Len(split.shares) = parts
        /\ \A i \in 1 .. Len(split.shares) :
              /\ Len(split.shares[i]) = Len(secret) + 2
              /\ split.shares[i][Len(secret) + 1] = i \div SizeByte
              /\ split.shares[i][Len(secret) + 2] = i % SizeByte
              /\ TagOf(split.shares[i]) # 0
        /\ \A i, j \in 1 .. Len(split.shares) :
              i # j => TagOf(split.shares[i]) # TagOf(split.shares[j])

\* A split into the largest number of parts.
C4_Witness == SplitSucceeded /\ parts = MaxPartsGF16 /\ Len(split.shares) = MaxPartsGF16

---------------------------------------------------------------------------
(* C5 *)

\* C5 as stated: Split returns an error and no shares exactly when one of its five
\* preconditions fails, the error being that of the first violated check, and every
\* error is returned before out16 is allocated and before the random source is read.
C5_SplitErrorsAsStated ==
    split.called =>
        /\ (split.err # NoError) <=> SplitPreconditionFails
        /\ split.err # NoError =>
              /\ split.shares = <<>>
              /\ split.err = FirstViolatedError
              /\ ~split.allocated
              /\ split.randCalls = 0

\* C5 amended: Split returns an error and no shares exactly when one of its five
\* preconditions fails or the random source fails; a failed precondition is reported
\* with the error of the first violated check, before out16 is allocated and before
\* the random source is read; a failure of the random source is reported as such.
C5_SplitErrors ==
    split.called =>
        /\ (split.err # NoError) <=> (SplitPreconditionFails \/ split.randFailed)
        /\ split.err # NoError => split.shares = <<>>
        /\ SplitPreconditionFails =>
              /\ split.err = FirstViolatedError
              /\ ~split.allocated
              /\ split.randCalls = 0
              /\ split.randBytes = 0
        /\ (~SplitPreconditionFails /\ split.randFailed) => split.err = ErrPolynomial

\* A call failing several checks at once.
C5_Witness ==
    /\ split.called
    /\ parts < threshold
    /\ threshold < 2
    /\ Len(secret) % 2 = 1
    /\ split.err = ErrPartsLessThanThreshold

---------------------------------------------------------------------------
(* C6 *)

CombineInputRejected ==
    \/ Len(cin) < 2
    \/ \E i, j \in 1 .. Len(cin) : Len(cin[i]) # Len(cin[j])
    \/ Len(cin[1]) < 4
    \/ Len(cin[1]) % 2 = 1
    \/ \E i, j \in 1 .. Len(cin) : i # j /\ TagOf(cin[i]) = TagOf(cin[j])

\* C6: Combine returns an error and no secret whenever it is given fewer than 2
\* parts, parts of different lengths, of length below 4 or odd, or two parts with the
\* same x-tag; on every other input it returns no error and L - 2 bytes.
C6_CombineErrors ==
    comb.called =>
        /\ CombineInputRejected => (comb.err # NoError /\ comb.secret = <<>>)
        /\ ~CombineInputRejected =>
              /\ comb.err = NoError
              /\ ~comb.panicked
              /\ Len(comb.secret) = Len(cin[1]) - 2

\* Fewer shares than the threshold, combined without error.
C6_Witness ==
    /\ SplitSucceeded
    /\ comb.called
    /\ Len(cin) = threshold - 1
    /\ ~CombineInputRejected
    /\ comb.err = NoError
    /\ Len(comb.secret) = Len(secret)

---------------------------------------------------------------------------
(* C7 *)

\* The distinct elements the generator's loop produced.
ElementsProduced == {gen.t.expTable[k] : k \in 1 .. Len(gen.t.expTable)}

\* C7: when the powers of the generator return to 1 before ModuloGF16 distinct
\* non-zero elements were produced, tableGenerator returns an error and the tool
\* exits with a non-zero status without writing the tables file; the tool exits with
\* status 0 only when ModuloGF16 distinct elements were produced and the file written.
C7_GeneratorSelfCheck ==
    gen.exited =>
        /\ Cardinality(ElementsProduced) # ModuloGF16 =>
              (gen.err # NoError /\ gen.status # 0 /\ ~gen.created /\ gen.written = 0)
        /\ gen.status = 0 =>
              /\ Cardinality(ElementsProduced) = ModuloGF16
              /\ gen.created
              /\ gen.written = Len(WriteStages)

---------------------------------------------------------------------------
(* C8 *)

\* Word k of the secret, interpolated from the bytes of cin.
InterpolatedWord(k) ==
    interpolatePolynomial([i \in 1 .. Len(cin) |-> TagOf(cin[i])],
                          [i \in 1 .. Len(cin) |-> WordAt(cin[i], k)], 0)

\* C8: for an accepted input, in whatever order the goroutines and the collector
\* run, Combine returns; when it does every goroutine has ended after its send, every
\* word of secret16 was written exactly once, and word k of what is returned is the
\* interpolation at 0 of column k of the parts.
C8_ParallelCombine ==
    /\ [](conc.pc = "returned" /\ comb.err = NoError =>
            /\ \A k \in DOMAIN conc.g : conc.g[k] = "done" /\ conc.written[k] = 1
            /\ Len(conc.g) = SecretWords(cin)
            /\ comb.secret = uint16ToByte([k \in 1 .. SecretWords(cin) |-> InterpolatedWord(k)]))
    /\ (conc.pc = "spawn" ~> conc.pc = "returned")

\* Three words whose results arrived in another order than they were asked for.
C8_Witness ==
    /\ conc.pc = "returned"
    /\ comb.err = NoError
    /\ conc.order = <<3, 1, 2>>
    /\ Len(cin) = 3
    /\ comb.secret # <<0, 0, 0, 0, 0, 0>>

---------------------------------------------------------------------------
(* C9 *)

\* C9: no call of div made for Combine has divisor 0, and div never panics.
C9_NoDivideByZero == comb.called => (0 \notin comb.denoms /\ ~comb.panicked)

\* An interpolation over at least three samples.
C9_Witness == comb.called /\ comb.calls > 0 /\ Len(comb.x_samples) >= 3 /\ comb.denoms # {}

---------------------------------------------------------------------------
(* C10 *)

SamplesDistinct ==
    \A i, j \in 1 .. Len(comb.x_samples) : i # j => comb.x_samples[i] # comb.x_samples[j]

LengthsAccepted ==
    /\ Len(cin) >= 2
    /\ Len(cin[1]) >= 4
    /\ Len(cin[1]) % 2 = 0
    /\ \A i \in 1 .. Len(cin) : Len(cin[i]) = Len(cin[1])

\* C10 as stated: in every call of interpolatePolynomial the x samples are pairwise
\* distinct and all non-zero; parts with a duplicate x-tag or an x-tag 0 are rejected
\* before any interpolation.
C10_PreconditionAsStated ==
    comb.called =>
        /\ comb.calls > 0 =>
              /\ SamplesDistinct
              /\ \A i \in 1 .. Len(comb.x_samples) : comb.x_samples[i] # 0
        /\ (/\ LengthsAccepted
            /\ \E i \in 1 .. Len(cin) :
                  \/ TagOf(cin[i]) = 0
                  \/ \E j \in 1 .. Len(cin) : i # j /\ TagOf(cin[i]) = TagOf(cin[j]))
           => (comb.err # NoError /\ comb.calls = 0)

\* C10 amended: in every call of interpolatePolynomial the x samples are pairwise
\* distinct; parts with a duplicate x-tag are rejected before any interpolation (an
\* x-tag 0 is not rejected).
C10_Precondition ==
    comb.called =>
        /\ comb.calls > 0 => SamplesDistinct
        /\ (/\ LengthsAccepted
            /\ \E i, j \in 1 .. Len(cin) : i # j /\ TagOf(cin[i]) = TagOf(cin[j]))
           => (comb.err = ErrDuplicatePart /\ comb.calls = 0)

\* Parts with a duplicate x-tag among three, rejected.
C10_Witness ==
    /\ comb.called
    /\ Len(cin) = 3
    /\ TagOf(cin[1]) = TagOf(cin[3])
    /\ comb.err = ErrDuplicatePart
    /\ comb.calls = 0

---------------------------------------------------------------------------
(* C11 *)

\* C11: with the tables the generator builds, mult(a, b) is the product
\* multiplyGF16(a, b) for all a and b; mult(a, 1) = a, mult(a, 0) = mult(0, a) = 0;
\* and the result is the same whatever value logTable[0] holds.
C11_MultIsFieldProduct ==
    field.called =>
        /\ field.ret = field.product
        /\ field.b = 1 => field.ret = field.a
        /\ (field.a = 0 \/ field.b = 0) => field.ret = 0
        /\ field.retLog0 = field.ret

\* A product of 1, whose logarithm in the table is ModuloGF16, with an operand whose
\* logarithm is not 0, the sum of the logarithms reaching ModuloGF16 and logTable[0]
\* holding another value than the generated table does.
C11_Witness ==
    /\ field.called
    /\ field.a = 1
    /\ logTable[field.a] = ModuloGF16
    /\ field.b > 1
    /\ logTable[field.a] + logTable[field.b] > ModuloGF16
    /\ field.log0 # logTable[0]
    /\ field.ret = field.b

\* Zero operands with a logTable[0] that would otherwise show in the result.
C11_WitnessZero ==
    /\ field.called
    /\ field.b = 0
    /\ field.a > 1
    /\ expTable[(logTable[field.a] + field.log0) % ModuloGF16] # 0
    /\ field.retLog0 = 0

=============================================================================
